---- MODULE Spec2Model ----
(***************************************************************************)
(* Worktree Colors (vscode-wt): the color overlay that applyColors and     *)
(* resetColors keep on the workspace-scope `workbench.colorCustomizations` *)
(* object, and the triggers of the extension that drive it.                *)
(*                                                                         *)
(* The specifications share the variables:                                 *)
(*   SpecOverlay  applyColors / resetColors called one after the other,    *)
(*                each running to completion (the overlay's direct API);   *)
(*   Spec         the extension: activate, the commands, the settings      *)
(*                watcher and deactivate, with every await of              *)
(*                applyWorktreeColors / resetColors a point where other    *)
(*                handlers, and the user, may run;                         *)
(*   SpecGit      getGitInfo of git.ts run on the paths of a repository;   *)
(*   SpecColor    generateColor run for the worktrees of a repository;     *)
(*   SpecUrl      normalizeGitUrl run on a remote URL, and on its result;  *)
(*   SpecHue      stringToHue run on a string;                             *)
(*   SpecMap      buildColorCustomizations run for every choice of the     *)
(*                affect* settings;                                        *)
(*   SpecDetect   detectWorktreeGitInfo run in each detection mode.        *)
(***************************************************************************)
EXTENDS Integers, Sequences, FiniteSets, TLC

VARIABLES
    store,       \* workspace-scope value of workbench.colorCustomizations
    globalColors,\* user-scope value of the same setting (seen by inspect only)
    settings,    \* the worktreeColors.* settings
    workspace,   \* what the host and git report for the open workspace
    phase,       \* "inactive" | "active" | "deactivated"
    tasks,       \* the asynchronous calls started so far, in start order
    baseline,    \* history: managed keys of the store before the first apply wrote
    calls,       \* history: the overlay calls made so far (SpecOverlay)
    world,       \* the repository on disk and the behaviour of git (SpecGit)
    gitInfo,     \* what getGitInfo returned, by the path it was given (SpecGit)
    request,     \* the identifier and settings colors are derived for (SpecColor)
    derived,     \* the colors generateColor returned so far (SpecColor)
    originUrl,   \* the remote URL handed to normalizeGitUrl (SpecUrl)
    normalized,  \* what normalizeGitUrl returned, call after call (SpecUrl)
    text,        \* the string handed to stringToHue (SpecHue)
    hues,        \* what stringToHue returned, call after call (SpecHue)
    customizations, \* what buildColorCustomizations returned so far (SpecMap)
    window,      \* the workspace file, the first folder and the detectionMode
    detected     \* what detectWorktreeGitInfo returned so far (SpecDetect)

\* the variables of the specifications that run one function
callVars == <<originUrl, normalized, text, hues, customizations, window, detected>>

vars == <<store, globalColors, settings, workspace, phase, tasks, baseline, calls,
          world, gitInfo, request, derived, callVars>>

----------------------------------------------------------------------------
(* Bounds *)

MaxTasks == 2
MaxCalls == 3
MaxDerived == 2                  \* colors derived in one run
MaxIndex == 10                   \* worktree indices 0..MaxIndex
MaxTokens == 3                   \* pieces an arbitrary URL string is made of
MaxNormalized == 2               \* successive calls of normalizeGitUrl
MaxPieces == 3                   \* pieces a hashed string is made of
MaxHashes == 2                   \* calls of stringToHue on one string
MaxBuilt == 2                    \* customization maps built in one run
MaxDetected == 2                 \* calls of detectWorktreeGitInfo in one window

----------------------------------------------------------------------------
(* Color values.  A value of the customization object is a color string;   *)
(* it is kept as the term that produced it: the h,s,l handed to hslToHex,  *)
(* whether it is the base color or the foreground chosen for it, and the   *)
(* two hex digits addAlpha appended ("" when none).  A color the user      *)
(* wrote is a literal "#rrggbb", kept as its rgb number.                   *)

Literal(rgb) == [src |-> "lit", h |-> rgb, s |-> 0, l |-> 0, alpha |-> ""]

HexDigits == <<"0","1","2","3","4","5","6","7","8","9","a","b","c","d","e","f">>

\* n.toString(16).padStart(2, '0') for 0 <= n <= 255
toHex2(n) == HexDigits[(n \div 16) + 1] \o HexDigits[(n % 16) + 1]

\* Math.round(x) for x = num/den >= 0
Round(num, den) == (2 * num + den) \div (2 * den)

\* TLC's integers are 32 bits wide, so the 32-bit hash is kept as the pair
\* <<hi, lo>> of the 16-bit halves of its two's-complement bit pattern.
\* (hash << 5) - hash + char, then hash & hash: hash*31 + char modulo 2^32
HashStep(hash, char) ==
    LET lo == hash[2] * 31 + char
    IN  << (hash[1] * 31 + lo \div 65536) % 65536, lo % 65536 >>

RECURSIVE HashFrom(_, _, _)
HashFrom(str, i, hash) ==
    IF i > Len(str) THEN hash
    ELSE HashFrom(str, i + 1, HashStep(hash, str[i]))

\* (mutant) hash % 360 without Math.abs: the remainder has the sign of hash
AbsMod360_Signed(hash) ==
    IF hash[1] >= 32768
    THEN 0 - (((65536 - hash[1]) * 16 - hash[2]) % 360)
    ELSE (hash[1] * 16 + hash[2]) % 360

\* Math.abs(hash) % 360, with 65536 % 360 = 16; the sign bit is hi >= 32768
\* and then Math.abs(hash) = 2^32 - (hi*65536 + lo), which is 2^31 at most
AbsMod360(hash) ==
    IF hash[1] >= 32768
    THEN ((65536 - hash[1]) * 16 - hash[2]) % 360
    ELSE (hash[1] * 16 + hash[2]) % 360

\* str is the sequence of the string's char codes
stringToHue(str) == AbsMod360(HashFrom(str, 1, <<0, 0>>))

\* "#rrggbb" of the piecewise HSL -> RGB conversion, kept as the term
\* hsl(h, s, l): the digits are not computed
hslToHex(h, s, l) == [src |-> "hsl", h |-> h, s |-> s, l |-> l, alpha |-> ""]

\* '#15202b' or '#e0e0e0' by the WCAG luminance of hexColor, kept as the
\* term fg(hexColor): which of the two is not computed
getContrastingForeground(hexColor) == [hexColor EXCEPT !.src = "fg"]

\* alpha is given in hundredths (0.6 is 60)
addAlpha(hexColor, alpha) ==
    [hexColor EXCEPT !.alpha = toHex2(Round(alpha * 255, 100))]

Min(a, b) == IF a < b THEN a ELSE b

\* (mutant) the lightness is not capped
generateColor_NoCap(repoIdentifier, worktreeIndex, config) ==
    LET hue == stringToHue(repoIdentifier)
        lightness == config.baseLightness
                       + worktreeIndex * config.worktreeLightnessStep
    IN  hslToHex(hue, config.saturation, lightness)

\* (mutant) every secondary worktree gets the lightness of the first one
generateColor_OneStep(repoIdentifier, worktreeIndex, config) ==
    LET hue == stringToHue(repoIdentifier)
        lightness == Min(config.baseLightness
                           + Min(worktreeIndex, 1) * config.worktreeLightnessStep, 65)
    IN  hslToHex(hue, config.saturation, lightness)

generateColor(repoIdentifier, worktreeIndex, config) ==
    LET hue == stringToHue(repoIdentifier)
        lightness == Min(config.baseLightness
                           + worktreeIndex * config.worktreeLightnessStep, 65)
    IN  hslToHex(hue, config.saturation, lightness)

----------------------------------------------------------------------------
(* The customization object *)

MANAGED_COLOR_KEYS ==
    << "titleBar.activeBackground", "titleBar.activeForeground",
       "titleBar.inactiveBackground", "titleBar.inactiveForeground",
       "activityBar.background", "activityBar.foreground",
       "activityBar.inactiveForeground",
       "statusBar.background", "statusBar.foreground" >>

ManagedKeys == {MANAGED_COLOR_KEYS[i] : i \in DOMAIN MANAGED_COLOR_KEYS}

EmptyObj == [k \in {} |-> Literal(0)]

\* { ...a, ...b }
Spread(a, b) ==
    [k \in (DOMAIN a) \cup (DOMAIN b) |-> IF k \in DOMAIN b THEN b[k] ELSE a[k]]

TitleBarColors(baseColor, foreground) ==
    [k \in {"titleBar.activeBackground", "titleBar.activeForeground",
            "titleBar.inactiveBackground", "titleBar.inactiveForeground"} |->
        CASE k = "titleBar.activeBackground"   -> baseColor
          [] k = "titleBar.activeForeground"   -> foreground
          [] k = "titleBar.inactiveBackground" -> addAlpha(baseColor, 60)
          [] k = "titleBar.inactiveForeground" -> addAlpha(foreground, 60)]

ActivityBarColors(baseColor, foreground) ==
    [k \in {"activityBar.background", "activityBar.foreground",
            "activityBar.inactiveForeground"} |->
        CASE k = "activityBar.background"         -> baseColor
          [] k = "activityBar.foreground"         -> foreground
          [] k = "activityBar.inactiveForeground" -> addAlpha(foreground, 60)]

StatusBarColors(baseColor, foreground) ==
    [k \in {"statusBar.background", "statusBar.foreground"} |->
        CASE k = "statusBar.background" -> baseColor
          [] k = "statusBar.foreground" -> foreground]

\* (mutant) the status bar keys are set whatever affectStatusBar is
buildColorCustomizations_IgnoresToggle(baseColor, config) ==
    LET foreground == getContrastingForeground(baseColor)
        c1 == IF config.affectTitleBar
              THEN TitleBarColors(baseColor, foreground) ELSE EmptyObj
        c2 == IF config.affectActivityBar
              THEN Spread(c1, ActivityBarColors(baseColor, foreground)) ELSE c1
    IN  Spread(c2, StatusBarColors(baseColor, foreground))

\* (mutant) the title bar group also writes a key outside MANAGED_COLOR_KEYS
buildColorCustomizations_ExtraKey(baseColor, config) ==
    LET foreground == getContrastingForeground(baseColor)
        c1 == IF config.affectTitleBar
              THEN Spread(TitleBarColors(baseColor, foreground),
                          [k \in {"editor.background"} |-> baseColor])
              ELSE EmptyObj
        c2 == IF config.affectActivityBar
              THEN Spread(c1, ActivityBarColors(baseColor, foreground)) ELSE c1
    IN  IF config.affectStatusBar
        THEN Spread(c2, StatusBarColors(baseColor, foreground)) ELSE c2

buildColorCustomizations(baseColor, config) ==
    LET foreground == getContrastingForeground(baseColor)
        c1 == IF config.affectTitleBar
              THEN TitleBarColors(baseColor, foreground) ELSE EmptyObj
        c2 == IF config.affectActivityBar
              THEN Spread(c1, ActivityBarColors(baseColor, foreground)) ELSE c1
    IN  IF config.affectStatusBar
        THEN Spread(c2, StatusBarColors(baseColor, foreground)) ELSE c2

\* The setting's value at one scope: undefined, or an object
Undefined == [present |-> FALSE, obj |-> EmptyObj]
Object(o) == [present |-> TRUE, obj |-> o]

\* workbenchConfig.get('colorCustomizations') ?? {}
existingColors(st) == IF st.present THEN st.obj ELSE EmptyObj

\* the object applyColors hands to update()
mergedColors(st, baseColor, config) ==
    Spread(existingColors(st), buildColorCustomizations(baseColor, config))

\* (mutant) the filter tests a key list that lacks the status bar keys
filteredColors_StaleKeyList(st) ==
    LET e == existingColors(st)
    IN  [k \in {x \in DOMAIN e : x \notin ManagedKeys
                                 \/ x \in {"statusBar.background",
                                           "statusBar.foreground"}} |-> e[k]]

\* the entries resetColors keeps
filteredColors(st) ==
    LET e == existingColors(st)
    IN  [k \in {x \in DOMAIN e : x \notin ManagedKeys} |-> e[k]]

\* the value resetColors hands to update()
newValue(st) ==
    IF Cardinality(DOMAIN filteredColors(st)) > 0
    THEN Object(filteredColors(st)) ELSE Undefined

\* workbenchConfig.inspect('colorCustomizations')
inspect(ws, global) == [workspaceValue |-> ws, globalValue |-> global]

\* a managed key has a value in inspection.workspaceValue
hasExistingManagedColors(inspection) ==
    LET workspaceColors == existingColors(inspection.workspaceValue)
    IN  \E k \in ManagedKeys : k \in DOMAIN workspaceColors

----------------------------------------------------------------------------
(* Strings are sequences of UTF-16 code units, so that sorting, trimming   *)
(* and the regular expressions of git.ts act on characters                 *)

Slash == 47                      \* '/'
Colon == 58                      \* ':'
NewLine == 10                    \* '\n'

GitDirKey == <<103,105,116,100,105,114,58>>                       \* "gitdir:"
WorktreesInfix ==
    <<47,46,103,105,116,47,119,111,114,107,116,114,101,101,115,47>> \* "/.git/worktrees/"
WorktreeKey == <<119,111,114,107,116,114,101,101,32>>             \* "worktree "
DotGit == <<46,103,105,116>>                                      \* ".git"
GitAt == <<103,105,116,64>>                                       \* "git@"
HttpScheme == <<104,116,116,112,58,47,47>>                        \* "http://"
HttpsScheme == <<104,116,116,112,115,58,47,47>>                   \* "https://"
GitScheme == <<103,105,116,58,47,47>>                             \* "git://"

SetMin(S) == CHOOSE x \in S : \A y \in S : x <= y
SetMax(S) == CHOOSE x \in S : \A y \in S : y <= x

From(s, i) == SubSeq(s, i, Len(s))
startsWith(s, p) == Len(s) >= Len(p) /\ SubSeq(s, 1, Len(p)) = p
endsWith(s, p) == Len(s) >= Len(p) /\ From(s, Len(s) - Len(p) + 1) = p

\* \s of a regular expression, and what trim() strips
IsWhiteSpace(c) == c \in {9, 10, 11, 12, 13, 32}
\* what `.` does not match and where `$` with the m flag matches
IsLineTerminator(c) == c \in {10, 13}

\* String.prototype.trim
trim(s) ==
    LET keep == {i \in 1..Len(s) : ~IsWhiteSpace(s[i])}
    IN  IF keep = {} THEN << >> ELSE SubSeq(s, SetMin(keep), SetMax(keep))

\* String.prototype.toLowerCase
toLowerCase(s) == [i \in 1..Len(s) |-> IF s[i] \in 65..90 THEN s[i] + 32 ELSE s[i]]

\* String.prototype.split with a one-character separator
RECURSIVE split(_, _)
split(s, c) ==
    LET at == {i \in 1..Len(s) : s[i] = c}
    IN  IF at = {} THEN <<s>>
        ELSE <<SubSeq(s, 1, SetMin(at) - 1)>> \o split(From(s, SetMin(at) + 1), c)

\* Array.prototype.join with a one-character separator
RECURSIVE join(_, _)
join(parts, c) ==
    IF parts = << >> THEN << >>
    ELSE IF Len(parts) = 1 THEN parts[1]
    ELSE parts[1] \o <<c>> \o join(Tail(parts), c)

\* a < b for strings: by code units, a proper prefix first
StringLess(a, b) ==
    \E i \in 1..(Len(b)) :
        /\ i <= Len(a) + 1
        /\ SubSeq(a, 1, i - 1) = SubSeq(b, 1, i - 1)
        /\ IF i <= Len(a) THEN a[i] < b[i] ELSE TRUE

\* Array.prototype.sort with no comparator, on strings
RECURSIVE insertSorted(_, _)
insertSorted(x, sorted) ==
    IF sorted = << >> THEN <<x>>
    ELSE IF StringLess(x, Head(sorted)) THEN <<x>> \o sorted
    ELSE <<Head(sorted)>> \o insertSorted(x, Tail(sorted))

RECURSIVE sort(_)
sort(list) ==
    IF list = << >> THEN << >>
    ELSE insertSorted(list[Len(list)], sort(SubSeq(list, 1, Len(list) - 1)))

----------------------------------------------------------------------------
(* node:path on POSIX paths *)

isAbsolute(p) == Len(p) > 0 /\ p[1] = Slash

\* the segments of a path with "", "." and ".." resolved
RECURSIVE normalizeSegments(_, _)
normalizeSegments(segments, done) ==
    IF segments = << >> THEN done
    ELSE LET seg == Head(segments)
         IN  IF seg = << >> \/ seg = <<46>>
             THEN normalizeSegments(Tail(segments), done)
             ELSE IF seg = <<46, 46>>
             THEN normalizeSegments(Tail(segments),
                                    IF done = << >> THEN done
                                    ELSE SubSeq(done, 1, Len(done) - 1))
             ELSE normalizeSegments(Tail(segments), Append(done, seg))

\* path.resolve(...) of an absolute path
normalizeAbsolute(p) == <<Slash>> \o join(normalizeSegments(split(p, Slash), << >>), Slash)

\* path.resolve(from, to), from absolute
pathResolve(from, to) ==
    normalizeAbsolute(IF isAbsolute(to) THEN to ELSE from \o <<Slash>> \o to)

\* path.join(dir, name), dir absolute
pathJoin(dir, name) == normalizeAbsolute(dir \o <<Slash>> \o name)

\* path.basename
basename(p) ==
    LET segments == SelectSeq(split(p, Slash), LAMBDA seg : seg # << >>)
    IN  IF segments = << >> THEN << >> ELSE segments[Len(segments)]

\* path.dirname of an absolute path without a trailing slash
dirname(p) ==
    LET at == {i \in 1..Len(p) : p[i] = Slash}
    IN  IF SetMax(at) = 1 THEN <<Slash>> ELSE SubSeq(p, 1, SetMax(at) - 1)

----------------------------------------------------------------------------
(* git.ts: the repository as the file system and the git binary show it    *)

\* null, for a string | null
null == <<-1>>
\* a string that passes `if (s)`
Truthy(s) == s # null /\ s # << >>

ConfigRemote == "config --get remote.origin.url"
RevParseTopLevel == "rev-parse --show-toplevel"
WorktreeListPorcelain == "worktree list --porcelain"

HeadLine == <<72,69,65,68,32,48>>                                  \* "HEAD 0"

\* the worktree of world w that contains directory cwd, or null
containingWorktree(w, cwd) ==
    LET around == {i \in 1..Len(w.worktrees) :
                       \/ cwd = w.worktrees[i]
                       \/ startsWith(cwd, w.worktrees[i] \o <<Slash>>)}
    IN  IF around = {} THEN null
        ELSE w.worktrees[CHOOSE i \in around :
                             \A j \in around : Len(w.worktrees[j]) <= Len(w.worktrees[i])]

RECURSIVE porcelain(_)
porcelain(paths) ==
    IF paths = << >> THEN << >>
    ELSE WorktreeKey \o Head(paths) \o <<NewLine>> \o HeadLine \o <<NewLine, NewLine>>
         \o porcelain(Tail(paths))

\* execAsync(`git ${command}`, { cwd, timeout: 10000 }): what the promise
\* settles to; a non-zero exit, a timeout and a missing binary reject it
execAsync(w, command, cwd) ==
    LET top == containingWorktree(w, cwd)
        rejects == [rejected |-> TRUE, stdout |-> << >>]
    IN  IF command \in w.fails \/ top = null THEN rejects
        ELSE IF command = ConfigRemote
        THEN IF w.remote = << >> THEN rejects
             ELSE [rejected |-> FALSE, stdout |-> w.remote \o <<NewLine>>]
        ELSE IF command = RevParseTopLevel
        THEN [rejected |-> FALSE, stdout |-> top \o <<NewLine>>]
        ELSE [rejected |-> FALSE, stdout |-> porcelain(w.listed)]

\* normalizeGitUrl
normalizeGitUrl(url) ==
    LET trimmed == trim(url)
        colons == {i \in 1..Len(trimmed) : trimmed[i] = Colon}
        colon == IF colons = {} THEN 0 ELSE SetMin(colons)
        sshMatch == /\ startsWith(trimmed, GitAt)
                    /\ colon > Len(GitAt) + 1
                    /\ colon < Len(trimmed)
                    /\ \A i \in (colon + 1)..Len(trimmed) : ~IsLineTerminator(trimmed[i])
        joined == IF sshMatch
                  THEN SubSeq(trimmed, Len(GitAt) + 1, colon - 1) \o <<Slash>>
                       \o From(trimmed, colon + 1)
                  ELSE trimmed
        noHttp == IF startsWith(joined, HttpsScheme) THEN From(joined, Len(HttpsScheme) + 1)
                  ELSE IF startsWith(joined, HttpScheme) THEN From(joined, Len(HttpScheme) + 1)
                  ELSE joined
        noGit == IF startsWith(noHttp, GitScheme) THEN From(noHttp, Len(GitScheme) + 1)
                 ELSE noHttp
        noSuffix == IF endsWith(noGit, DotGit) THEN SubSeq(noGit, 1, Len(noGit) - Len(DotGit))
                    ELSE noGit
        kept == {i \in 1..Len(noSuffix) : noSuffix[i] # Slash}
        noSlash == IF kept = {} THEN << >> ELSE SubSeq(noSuffix, 1, SetMax(kept))
    IN  toLowerCase(noSlash)

\* (mutant) execGit without its try/catch: the rejection reaches the caller
execGit_NoCatch(w, command, cwd) ==
    LET settled == execAsync(w, command, cwd)
    IN  [ok |-> ~settled.rejected, threw |-> settled.rejected,
         stdout |-> settled.stdout]

\* execGit: the result, or null (ok = FALSE) for a rejected promise; threw
\* tells that an exception left the function
execGit(w, command, cwd) ==
    LET settled == execAsync(w, command, cwd)
    IN  [ok |-> ~settled.rejected, threw |-> FALSE, stdout |-> settled.stdout]

\* getRemoteUrl: result?.stdout.trim() ?? null
getRemoteUrl(w, cwd) ==
    LET result == execGit(w, ConfigRemote, cwd)
    IN  IF result.ok THEN trim(result.stdout) ELSE null

\* getGitTopLevel
getGitTopLevel(w, cwd) ==
    LET result == execGit(w, RevParseTopLevel, cwd)
    IN  IF result.ok THEN trim(result.stdout) ELSE null

\* (mutant) the first line is taken, whatever it starts with
parseGitFile_AnyKey(content) ==
    LET keys == {i \in 1..Len(content) : content[i] = Colon}
    IN  IF keys = {} THEN null
        ELSE LET body == From(content, SetMin(keys) + 1)
                 ends == {i \in 1..Len(body) : IsLineTerminator(body[i])}
             IN  trim(IF ends = {} THEN body ELSE SubSeq(body, 1, SetMin(ends) - 1))

\* parseGitFile: content.match(/^gitdir:\s*(.+)$/m), then match?.[1]?.trim() ?? null
parseGitFile(content) ==
    LET lineStarts == {i \in 1..Len(content) :
                          /\ IF i = 1 THEN TRUE ELSE IsLineTerminator(content[i - 1])
                          /\ startsWith(From(content, i), GitDirKey)}
    IN  IF lineStarts = {} THEN null
        ELSE LET rest == From(content, SetMin(lineStarts) + Len(GitDirKey))
                 solid == {i \in 1..Len(rest) : ~IsWhiteSpace(rest[i])}
             IN  IF solid = {}
                 THEN IF \E i \in 1..Len(rest) : ~IsLineTerminator(rest[i])
                      THEN << >> ELSE null
                 ELSE LET body == From(rest, SetMin(solid))
                          ends == {i \in 1..Len(body) : IsLineTerminator(body[i])}
                      IN  trim(IF ends = {} THEN body
                               ELSE SubSeq(body, 1, SetMin(ends) - 1))

\* (mutant) the list is left in the order git printed it
getWorktreeList_Unsorted(w, cwd) ==
    LET result == execGit(w, WorktreeListPorcelain, cwd)
    IN  IF ~result.ok THEN << >>
        ELSE LET lines == SelectSeq(split(result.stdout, NewLine),
                                    LAMBDA line : startsWith(line, WorktreeKey))
             IN  [i \in 1..Len(lines) |-> From(lines[i], Len(WorktreeKey) + 1)]

\* getWorktreeList
getWorktreeList(w, cwd) ==
    LET result == execGit(w, WorktreeListPorcelain, cwd)
    IN  IF ~result.ok THEN << >>
        ELSE LET lines == SelectSeq(split(result.stdout, NewLine),
                                    LAMBDA line : startsWith(line, WorktreeKey))
                 worktrees == [i \in 1..Len(lines) |->
                                  From(lines[i], Len(WorktreeKey) + 1)]
             IN  sort(worktrees)

\* getWorktreeIndex
getWorktreeIndex(w, workspacePath) ==
    LET worktrees == getWorktreeList(w, workspacePath)
        topLevel == getGitTopLevel(w, workspacePath)
        resolvedTopLevel == normalizeAbsolute(topLevel)
        hits == {i \in 1..Len(worktrees) :
                     normalizeAbsolute(worktrees[i]) = resolvedTopLevel}
    IN  IF Len(worktrees) = 0 THEN 0
        ELSE IF ~Truthy(topLevel) THEN 0
        ELSE IF hits = {} THEN 0 ELSE SetMin(hits) - 1

\* (mutant) the group ends after "/.git"
worktreesMatch_KeepsDotGit(gitDir) ==
    LET at == {i \in 2..Len(gitDir) :
                   /\ i + Len(WorktreesInfix) <= Len(gitDir)
                   /\ SubSeq(gitDir, i, i + Len(WorktreesInfix) - 1) = WorktreesInfix}
    IN  IF at = {} THEN null ELSE SubSeq(gitDir, 1, SetMax(at) + Len(DotGit))

\* gitDir.match(/^(.+)\/\.git\/worktrees\/.+$/)?.[1]
worktreesMatch(gitDir) ==
    LET at == {i \in 2..Len(gitDir) :
                   /\ i + Len(WorktreesInfix) <= Len(gitDir)
                   /\ SubSeq(gitDir, i, i + Len(WorktreesInfix) - 1) = WorktreesInfix}
    IN  IF at = {} THEN null ELSE SubSeq(gitDir, 1, SetMax(at) - 1)

\* what getGitInfo resolves to, with the git subprocesses it spawned
NoGitInfo ==
    [present |-> FALSE, threw |-> FALSE, repoIdentifier |-> null,
     isWorktree |-> FALSE, mainWorktreePath |-> null, gitDir |-> null,
     worktreeIndex |-> 0, spawned |-> << >>]

\* getGitInfo
getGitInfo(w, workspacePath) ==
    LET gitPath == pathJoin(workspacePath, DotGit)
    IN  IF gitPath \notin DOMAIN w.fs THEN NoGitInfo
        ELSE
        LET stat == w.fs[gitPath]
            parsedGitDir == parseGitFile(stat.content)
        IN  IF stat.isFile /\ ~Truthy(parsedGitDir) THEN NoGitInfo
            ELSE
            LET gitDir == IF stat.isFile
                          THEN IF isAbsolute(parsedGitDir) THEN parsedGitDir
                               ELSE pathResolve(workspacePath, parsedGitDir)
                          ELSE gitPath
                remoteUrl == getRemoteUrl(w, workspacePath)
                topLevel == getGitTopLevel(w, workspacePath)
                spawned ==
                    <<ConfigRemote>>
                    \o (IF Truthy(remoteUrl) THEN << >> ELSE <<RevParseTopLevel>>)
                    \o <<WorktreeListPorcelain>>
                    \o (IF Len(getWorktreeList(w, workspacePath)) = 0 THEN << >>
                        ELSE <<RevParseTopLevel>>)
                thrown == {i \in 1..Len(spawned) :
                              execGit(w, spawned[i], workspacePath).threw}
            IN  IF thrown # {}
                THEN [NoGitInfo EXCEPT !.threw = TRUE,
                                       !.spawned = SubSeq(spawned, 1, SetMin(thrown))]
                ELSE
                [present |-> TRUE, threw |-> FALSE,
                 repoIdentifier |->
                     IF Truthy(remoteUrl) THEN normalizeGitUrl(remoteUrl)
                     ELSE basename(IF topLevel # null THEN topLevel
                                   ELSE workspacePath),
                 isWorktree |-> stat.isFile,
                 mainWorktreePath |->
                     IF stat.isFile THEN worktreesMatch(gitDir) ELSE null,
                 gitDir |-> gitDir,
                 worktreeIndex |-> getWorktreeIndex(w, workspacePath),
                 spawned |-> spawned]

\* fs.statSync(filePath).isDirectory(): the directories are the working
\* trees; everything else that is opened is a file
isDirectory(w, filePath) ==
    \E i \in DOMAIN w.worktrees : w.worktrees[i] = filePath

\* getGitInfoForFile; getGitInfoAt[p] is what getGitInfo(p) returns
getGitInfoForFile(getGitInfoAt, w, filePath) ==
    LET dirPath == IF isDirectory(w, filePath) THEN filePath ELSE dirname(filePath)
        result == execGit(w, RevParseTopLevel, dirPath)
    IN  IF ~result.ok THEN NoGitInfo
        ELSE LET repoRoot == trim(result.stdout)
             IN  getGitInfoAt[repoRoot]

----------------------------------------------------------------------------
(* extension.ts: which path the git context is resolved for *)

\* config.get<DetectionMode>('detectionMode') ?? 'auto'; "undefined" is
\* the setting left unset
getWorkspaceConfig(setting) ==
    [detectionMode |-> IF setting = "undefined" THEN "auto" ELSE setting]

\* one lookup of detectWorktreeGitInfo: what was consulted, and whether a
\* GitInfo came back
Consulted(what, info) == [what |-> what, found |-> info.present]

\* detectWorktreeGitInfo: the GitInfo (present = FALSE for null) and the
\* lookups made for it, in order; getGitInfoAt[p] is what getGitInfo(p)
\* returns
detectWorktreeGitInfo(getGitInfoAt, w, wsConfig, workspaceFilePath, firstFolderPath) ==
    LET workspaceFileGitInfo ==
            IF Truthy(workspaceFilePath)
            THEN getGitInfoForFile(getGitInfoAt, w, workspaceFilePath)
            ELSE NoGitInfo
        fromFile == IF Truthy(workspaceFilePath)
                    THEN <<Consulted("workspaceFile", workspaceFileGitInfo)>>
                    ELSE << >>
        firstFolderGitInfo ==
            IF Truthy(firstFolderPath) THEN getGitInfoAt[firstFolderPath]
            ELSE NoGitInfo
        fromFolder == IF Truthy(firstFolderPath)
                      THEN <<Consulted("firstFolder", firstFolderGitInfo)>>
                      ELSE << >>
    IN  IF wsConfig.detectionMode = "firstWorkspaceFolder"
        THEN [info |-> firstFolderGitInfo, lookups |-> fromFolder]
        ELSE IF workspaceFileGitInfo.present
        THEN [info |-> workspaceFileGitInfo, lookups |-> fromFile]
        ELSE IF wsConfig.detectionMode = "workspaceFileOnly"
        THEN [info |-> NoGitInfo, lookups |-> fromFile]
        ELSE [info |-> firstFolderGitInfo, lookups |-> fromFile \o fromFolder]

----------------------------------------------------------------------------
(* The values the model draws from *)

\* "acme/widgets" and "user/repo" as char codes
RepoIdentifiers ==
    { <<97,99,109,101,47,119,105,100,103,101,116,115>>,
      <<117,115,101,114,47,114,101,112,111>> }

DefaultColorConfig ==
    [saturation |-> 30, baseLightness |-> 25, worktreeLightnessStep |-> 5,
     affectTitleBar |-> TRUE, affectActivityBar |-> TRUE, affectStatusBar |-> TRUE]

ColorConfigs ==
    { DefaultColorConfig,
      [DefaultColorConfig EXCEPT !.saturation = 50],
      [DefaultColorConfig EXCEPT !.affectTitleBar = FALSE],
      [DefaultColorConfig EXCEPT !.affectActivityBar = FALSE,
                                 !.affectStatusBar = FALSE],
      [DefaultColorConfig EXCEPT !.affectTitleBar = FALSE,
                                 !.affectActivityBar = FALSE,
                                 !.affectStatusBar = FALSE] }

\* the color settings the user switches between while the extension runs
EditedColorConfigs ==
    { DefaultColorConfig, [DefaultColorConfig EXCEPT !.affectTitleBar = FALSE] }

\* settings within the ranges the README documents: saturation 10-100,
\* baseLightness 15-60, worktreeLightnessStep 3-15
DocumentedConfigs ==
    { [DefaultColorConfig EXCEPT !.saturation = s, !.baseLightness = b,
                                 !.worktreeLightnessStep = d] :
          s \in {10, 30, 100}, b \in {15, 25, 35, 60}, d \in {3, 5, 8, 15} }

\* every choice of affectTitleBar, affectActivityBar and affectStatusBar
ToggleConfigs ==
    { [DefaultColorConfig EXCEPT !.affectTitleBar = title,
                                 !.affectActivityBar = activity,
                                 !.affectStatusBar = status] :
          title \in BOOLEAN, activity \in BOOLEAN, status \in BOOLEAN }

\* the colors of the first secondary worktree of each repository
BaseColors == { generateColor(r, 1, DefaultColorConfig) : r \in RepoIdentifiers }

UserColors == {Literal(16711680), Literal(1710618)}   \* #ff0000, #1a1a1a

OneKey(k, v) == [x \in {k} |-> v]

InitialStores ==
    { Undefined,
      Object(OneKey("editor.background", Literal(1710618))),
      Object(OneKey("titleBar.activeBackground", Literal(16711680))),
      Object(Spread(OneKey("editor.background", Literal(1710618)),
                    OneKey("statusBar.foreground", Literal(16711680)))) }

InitialGlobals ==
    { Undefined, Object(OneKey("titleBar.activeBackground", Literal(16711680))) }

\* a managed key holds a value this system wrote
SystemValue(v) == v.src # "lit"
HoldsSystemColor(st) ==
    \E k \in ManagedKeys \cap DOMAIN existingColors(st) :
        SystemValue(existingColors(st)[k])

\* the managed keys of a store value, with their values
ManagedSlice(st) ==
    LET e == existingColors(st)
    IN  [k \in (DOMAIN e) \cap ManagedKeys |-> e[k]]

UnmanagedSlice(st) ==
    LET e == existingColors(st)
    IN  [k \in (DOMAIN e) \ ManagedKeys |-> e[k]]

----------------------------------------------------------------------------
(* The remote URLs normalizeGitUrl is run on *)

\* String.prototype.toUpperCase
toUpperCase(s) == [i \in 1..Len(s) |-> IF s[i] \in 97..122 THEN s[i] - 32 ELSE s[i]]

\* the repositories: "ex.io" with the paths "u/repo" and "o/g/repo"
Hosts == { <<101,120,46,105,111>> }
RepoPaths == { <<117,47,114,101,112,111>>, <<111,47,103,47,114,101,112,111>> }
HostedRepos == [host : Hosts, path : RepoPaths]

\* the users of an SCP-style URL: "git", "ci"
ScpUsers == { <<103,105,116>>, <<99,105>> }

\* what stands before the host: "<user>@" (the host is then followed by ':'),
\* or a scheme (the host is then followed by '/')
UrlForms ==
    { [lead |-> user \o <<64>>, sep |-> <<Colon>>] : user \in ScpUsers }
    \cup { [lead |-> scheme, sep |-> <<Slash>>] :
             scheme \in {HttpScheme, HttpsScheme, GitScheme} }

LetterCases(s) == {s, toUpperCase(s)}
Blanks == { << >>, <<32, 32>>, <<NewLine>> }
Suffixes == { << >>, DotGit }
TrailingSlashes == { << >>, <<Slash>>, <<Slash, Slash>> }

\* the URLs of one repository
Renderings(repo) ==
    { before \o form.lead \o host \o form.sep \o path \o suffix \o slashes \o after :
          before \in Blanks, after \in Blanks, form \in UrlForms,
          host \in LetterCases(repo.host), path \in LetterCases(repo.path),
          suffix \in Suffixes, slashes \in TrailingSlashes }

\* the pieces of an arbitrary input: "https://", "git@", "h", ":", "/",
\* ".git", " ", "P"
UrlTokens ==
    { HttpsScheme, GitAt, <<104>>, <<Colon>>, <<Slash>>, DotGit, <<32>>, <<80>> }

\* the strings made of at most n of the pieces
RECURSIVE Concatenations(_, _)
Concatenations(pieces, n) ==
    IF n = 0 THEN { << >> }
    ELSE LET shorter == Concatenations(pieces, n - 1)
         IN  shorter \cup { s \o t : s \in shorter, t \in pieces }

RemoteUrlStrings ==
    Concatenations(UrlTokens, MaxTokens)
    \cup UNION { Renderings(repo) : repo \in HostedRepos }

\* the pieces of the strings stringToHue is run on: "gh.io/", "user/",
\* "repo", and "xfjfxtf", whose hash is -2^31
HuePieces ==
    { <<103,104,46,105,111,47>>,
      <<117,115,101,114,47>>, <<114,101,112,111>>,
      <<120,102,106,102,120,116,102>> }

HueStrings == Concatenations(HuePieces, MaxPieces) \cup RepoIdentifiers

----------------------------------------------------------------------------
(* The repositories resolve is run on *)

MaxResolved == 2                 \* resolutions made in one world

\* "/r", "/a", "/r-f": where working trees are
WorktreePaths == { <<47,114>>, <<47,97>>, <<47,114,45,102>> }

\* the paths resolve is asked about: the working trees, "/r/src", "/x"
ProbePaths == WorktreePaths \cup { <<47,114,47,115,114,99>>, <<47,120>> }

\* "git@github.com:Acme/Widgets.git", or no remote configured
RemoteUrls ==
    { << >>,
      <<103,105,116,64,103,105,116,104,117,98,46,99,111,109,58,65,99,109,101,
        47,87,105,100,103,101,116,115,46,103,105,116>> }

GitCommands == {ConfigRemote, RevParseTopLevel, WorktreeListPorcelain}

\* what the .git file of a secondary worktree holds: the gitdir git wrote
\* (absolute, or relative to the worktree), or something else
WorktreeGitFiles == {"absolute", "relative"}
OtherGitFiles == {"empty", "blank", "ref", "module"}

RECURSIVE upwards(_)
upwards(n) == IF n = 0 THEN << >> ELSE <<46,46,47>> \o upwards(n - 1)

gitFileContent(kind, main, tree) ==
    LET admin == main \o WorktreesInfix \o basename(tree)
        depth == Len(normalizeSegments(split(tree, Slash), << >>))
    IN  CASE kind = "absolute" ->
                 <<103,105,116,100,105,114,58,32>> \o admin \o <<NewLine>>
          [] kind = "relative" ->
                 <<103,105,116,100,105,114,58,32>> \o upwards(depth)
                 \o From(admin, 2) \o <<NewLine>>
          [] kind = "module" ->
                 <<103,105,116,100,105,114,58,32>> \o main
                 \o <<47,46,103,105,116,47,109,111,100,117,108,101,115,47>>
                 \o basename(tree) \o <<NewLine>>
          [] kind = "blank" -> <<103,105,116,100,105,114,58,32,10>>
          [] kind = "ref" ->
                 <<114,101,102,58,32,114,101,102,115,47,104,101,97,100,115,47,
                   109,97,105,110,10>>
          [] OTHER -> << >>

\* a repository with its main working tree, its secondary worktrees in the
\* order git lists them, and how the git binary behaves
World(main, linked, remote, fails, gitFiles, stale) ==
    LET worktrees == <<main>> \o linked
    IN  [worktrees |-> worktrees,
         listed |-> IF stale THEN SubSeq(worktrees, 1, Len(worktrees) - 1)
                    ELSE worktrees,
         remote |-> remote,
         fails |-> fails,
         gitFiles |-> gitFiles,
         fs |-> [gitPath \in {pathJoin(worktrees[i], DotGit) : i \in DOMAIN worktrees} |->
                    IF gitPath = pathJoin(main, DotGit)
                    THEN [isFile |-> FALSE, content |-> << >>]
                    ELSE [isFile |-> TRUE,
                          content |-> gitFileContent(gitFiles, main, dirname(gitPath))]]]

LinkedLists(main) ==
    LET others == WorktreePaths \ {main}
    IN  {<< >>} \cup {<<x>> : x \in others}
        \cup {pair \in others \X others : pair[1] # pair[2]}

Repositories ==
    UNION { {[main |-> main, linked |-> linked] : linked \in LinkedLists(main)} :
            main \in WorktreePaths }

Worlds ==
    { World(repo.main, repo.linked, remote, fails, gitFiles, stale) :
          repo \in Repositories, remote \in RemoteUrls,
          fails \in SUBSET GitCommands,
          gitFiles \in WorktreeGitFiles \cup OtherGitFiles, stale \in BOOLEAN }

\* the values of worktreeColors.detectionMode: unset, the three the code
\* tests for, and "firstFolderOnly" as the CHANGELOG names the third
DetectionModes ==
    {"undefined", "auto", "workspaceFileOnly", "firstWorkspaceFolder",
     "firstFolderOnly"}

\* where the .code-workspace file is: in the secondary worktree "/r-f", in
\* the main working tree "/r", in "/r/src", outside the repository, or
\* there is none (a single-folder window)
WorkspaceFiles ==
    { null,
      <<47,114,45,102,47,97,46,99,111,100,101,45,119,111,114,107,115,112,97,99,101>>,
      <<47,114,47,97,46,99,111,100,101,45,119,111,114,107,115,112,97,99,101>>,
      <<47,114,47,115,114,99,47,97,46,99,111,100,101,45,119,111,114,107,115,112,97,99,101>>,
      <<47,120,47,97,46,99,111,100,101,45,119,111,114,107,115,112,97,99,101>> }

\* the first workspace folder: "/r", "/r-f", "/r/src", "/x"
FirstFolders == { <<47,114>>, <<47,114,45,102>>, <<47,114,47,115,114,99>>, <<47,120>> }

\* the repository at "/r" with the secondary worktree "/r-f", with and
\* without a remote, and with `git rev-parse` answering or failing
WindowWorlds ==
    { World(<<47,114>>, <<<<47,114,45,102>>>>, remote, fails, "absolute", FALSE) :
          remote \in RemoteUrls, fails \in {{}, {RevParseTopLevel}} }

NoWorld == World(<<47,114>>, << >>, << >>, {}, "absolute", FALSE)

Unresolved == [path \in {} |-> NoGitInfo]

----------------------------------------------------------------------------
(* The state shared by the specifications *)

\* one started call of applyWorktreeColors or resetColors: who started it,
\* where it is suspended (pc), the wsConfig.respectExistingColors it read
\* and the value it handed to update() (both gone when it returns), and the
\* message it returned
NoTask == [kind |-> "none", trigger |-> "none", pc |-> "unused",
           respect |-> FALSE, pending |-> Undefined, outcome |-> ""]

DefaultSettings ==
    [enabled |-> TRUE, respectExistingColors |-> TRUE, color |-> DefaultColorConfig]

NoCall == [op |-> "none", before |-> Undefined, color |-> Literal(0),
           config |-> DefaultColorConfig]

\* a folder is open and nothing is known of it; gitEntry tells what the
\* folder's .git is on disk: "none" | "dir" | "file"
NoWorkspace ==
    [hasFolder |-> TRUE, gitEntry |-> "none", found |-> FALSE,
     isWorktree |-> FALSE, repoIdentifier |-> << >>, worktreeIndex |-> 0]

NoRequest == [repoIdentifier |-> << >>, config |-> DefaultColorConfig]

\* no workspace file, no folder
NoOpened == [workspaceFile |-> null, firstFolder |-> null, detectionMode |-> "auto"]

\* none of the single functions was called
NothingCalled ==
    /\ originUrl = << >>
    /\ normalized = << >>
    /\ text = << >>
    /\ hues = << >>
    /\ customizations = << >>
    /\ window = NoOpened
    /\ detected = << >>

\* the extension and the repository as the single-function specifications
\* leave them
NothingStarted ==
    /\ store = Undefined
    /\ globalColors = Undefined
    /\ settings = DefaultSettings
    /\ workspace = NoWorkspace
    /\ phase = "inactive"
    /\ tasks = [i \in 1..MaxTasks |-> NoTask]
    /\ baseline = EmptyObj
    /\ calls = << >>
    /\ gitInfo = Unresolved
    /\ derived = << >>


----------------------------------------------------------------------------
(* SpecOverlay: applyColors and resetColors, each run to completion *)

InitOverlay ==
    /\ store \in InitialStores
    /\ globalColors \in InitialGlobals
    /\ settings = DefaultSettings
    /\ workspace = NoWorkspace
    /\ phase = "inactive"
    /\ tasks = [i \in 1..MaxTasks |-> NoTask]
    /\ baseline = EmptyObj
    /\ calls = << >>
    /\ world = NoWorld
    /\ gitInfo = Unresolved
    /\ request = NoRequest
    /\ derived = << >>
    /\ NothingCalled

OverlayFrame ==
    UNCHANGED <<globalColors, settings, workspace, phase, tasks, baseline,
                world, gitInfo, request, derived, callVars>>

\* await applyColors(baseColor, config)
applyColors(baseColor, config) ==
    /\ Len(calls) < MaxCalls
    /\ store' = Object(mergedColors(store, baseColor, config))
    /\ calls' = Append(calls, [op |-> "apply", before |-> store,
                               color |-> baseColor, config |-> config])
    /\ OverlayFrame

\* await resetColors()
resetColors ==
    /\ Len(calls) < MaxCalls
    /\ store' = newValue(store)
    /\ calls' = Append(calls, [NoCall EXCEPT !.op = "restore", !.before = store])
    /\ OverlayFrame

\* await resetColors() when the host rejects the update(): nothing is
\* written, and the rejection leaves resetColors, which catches nothing
resetColorsRejected ==
    /\ Len(calls) < MaxCalls
    /\ store' = store
    /\ calls' = Append(calls, [NoCall EXCEPT !.op = "rejected", !.before = store])
    /\ OverlayFrame

\* the user edits a managed key of the workspace settings
UserSetsManagedKey(k, v) ==
    /\ Len(calls) < MaxCalls
    /\ store' = Object(Spread(existingColors(store), OneKey(k, v)))
    /\ calls' = Append(calls, [NoCall EXCEPT !.op = "set", !.before = store])
    /\ OverlayFrame

NextOverlay ==
    \/ \E c \in BaseColors, cfg \in ColorConfigs : applyColors(c, cfg)
    \/ resetColors
    \/ resetColorsRejected
    \/ \E k \in {"titleBar.activeBackground"}, v \in UserColors :
          UserSetsManagedKey(k, v)

SpecOverlay == InitOverlay /\ [][NextOverlay]_vars

----------------------------------------------------------------------------
(* Spec: the extension.  applyWorktreeColors suspends at                    *)
(* `await detectWorktreeGitInfo` (pc = "git") and inside applyColors at     *)
(* `await workbenchConfig.update` (pc = "write"); resetColors suspends at   *)
(* its `await workbenchConfig.update`.  Nothing cancels a suspended call.   *)

\* the open folder, with what its .git is on disk and what getGitInfo
\* resolved for it
WorkspaceOf(gitEntry, info) ==
    [hasFolder |-> TRUE,
     gitEntry |-> gitEntry,
     found |-> info.present,
     isWorktree |-> info.isWorktree,
     repoIdentifier |-> info.repoIdentifier,
     worktreeIndex |-> info.worktreeIndex]

GitEntryIn(w, folder) ==
    LET gitPath == pathJoin(folder, DotGit)
    IN  IF gitPath \notin DOMAIN w.fs THEN "none"
        ELSE IF w.fs[gitPath].isFile THEN "file" ELSE "dir"

Workspace(w, folder) == WorkspaceOf(GitEntryIn(w, folder), getGitInfo(w, folder))

\* the repository of "git@github.com:Acme/Widgets.git" with its main
\* working tree at "/r" and one secondary worktree
Acme(linked, gitFiles) ==
    World(<<47,114>>, <<linked>>,
          <<103,105,116,64,103,105,116,104,117,98,46,99,111,109,58,65,99,109,101,
            47,87,105,100,103,101,116,115,46,103,105,116>>,
          {}, gitFiles, FALSE)

\* the folders opened: "/x" outside any repository; "/r" and "/r-f"; "/r"
\* and "/a", which sorts before the main working tree; "/r-f" with a blank
\* .git file
Opened ==
    { [world |-> Acme(<<47,114,45,102>>, "absolute"), folder |-> <<47,120>>],
      [world |-> Acme(<<47,114,45,102>>, "absolute"), folder |-> <<47,114>>],
      [world |-> Acme(<<47,114,45,102>>, "absolute"), folder |-> <<47,114,45,102>>],
      [world |-> Acme(<<47,97>>, "absolute"), folder |-> <<47,114>>],
      [world |-> Acme(<<47,97>>, "absolute"), folder |-> <<47,97>>],
      [world |-> Acme(<<47,114,45,102>>, "blank"), folder |-> <<47,114,45,102>>] }

Workspaces ==
    { [NoWorkspace EXCEPT !.hasFolder = FALSE] }
    \cup { Workspace(o.world, o.folder) : o \in Opened }

\* the main working tree "/r", whose secondary worktree "/r-f" sorts after it
MainRepo ==
    CHOOSE ws \in Workspaces : ws.gitEntry = "dir" /\ ws.worktreeIndex = 0

Slots == 1..MaxTasks

HasFreeSlot == \E i \in Slots : tasks[i].pc = "unused"
FreeSlot == CHOOSE i \in Slots :
                /\ tasks[i].pc = "unused"
                /\ \A j \in Slots : tasks[j].pc = "unused" => i <= j

Start(task) == tasks' = [tasks EXCEPT ![FreeSlot] = task]

Returned(trigger, message) ==
    [kind |-> "apply", trigger |-> trigger, pc |-> "done",
     respect |-> FALSE, pending |-> Undefined, outcome |-> message]

\* applyWorktreeColors up to `await detectWorktreeGitInfo(wsConfig)`,
\* with sett what getWorkspaceConfig() reads
applyWorktreeColors(trigger, sett) ==
    IF ~workspace.hasFolder
    THEN Returned(trigger, "No workspace folder open")
    ELSE IF /\ sett.respectExistingColors
            /\ hasExistingManagedColors(inspect(store, globalColors))
    THEN Returned(trigger, "Existing color customizations found")
    ELSE [kind |-> "apply", trigger |-> trigger, pc |-> "git",
          respect |-> sett.respectExistingColors, pending |-> Undefined,
          outcome |-> ""]

\* resetColors up to `await workbenchConfig.update(...)`
resetColorsCall(trigger) ==
    [kind |-> "reset", trigger |-> trigger, pc |-> "write", respect |-> FALSE,
     pending |-> newValue(store), outcome |-> ""]

Init ==
    /\ store \in InitialStores
    /\ globalColors = Undefined
    /\ settings \in [enabled : BOOLEAN, respectExistingColors : BOOLEAN,
                     color : {DefaultColorConfig}]
    /\ workspace \in Workspaces
    /\ phase = "inactive"
    /\ tasks = [i \in Slots |-> NoTask]
    /\ baseline = EmptyObj
    /\ calls = << >>
    /\ world = NoWorld
    /\ gitInfo = Unresolved
    /\ request = NoRequest
    /\ derived = << >>
    /\ NothingCalled

activate ==
    /\ phase = "inactive"
    /\ phase' = "active"
    /\ IF settings.enabled
       THEN Start(applyWorktreeColors("startup", settings))
       ELSE UNCHANGED tasks
    /\ UNCHANGED <<store, globalColors, settings, workspace, baseline, calls,
                 world, gitInfo, request, derived, callVars>>

\* command worktreeColors.applyColor
applyCommand ==
    /\ phase = "active" /\ HasFreeSlot
    /\ Start(applyWorktreeColors("command", settings))
    /\ UNCHANGED <<store, globalColors, settings, workspace, phase, baseline, calls,
                 world, gitInfo, request, derived, callVars>>

\* command worktreeColors.resetColor
resetCommand ==
    /\ phase = "active" /\ HasFreeSlot
    /\ Start(resetColorsCall("command"))
    /\ UNCHANGED <<store, globalColors, settings, workspace, phase, baseline, calls,
                 world, gitInfo, request, derived, callVars>>

\* the user edits one worktreeColors.* setting; the configWatcher runs
SettingsEdits ==
    { [settings EXCEPT !.enabled = ~@],
      [settings EXCEPT !.respectExistingColors = ~@] }
    \cup { [settings EXCEPT !.color = c] : c \in EditedColorConfigs \ {settings.color} }

configWatcher(updated) ==
    /\ phase = "active" /\ HasFreeSlot
    /\ settings' = updated
    /\ IF updated.enabled
       THEN Start(applyWorktreeColors("config", updated))
       ELSE Start(resetColorsCall("disable"))
    /\ UNCHANGED <<store, globalColors, workspace, phase, baseline, calls,
                 world, gitInfo, request, derived, callVars>>

deactivate ==
    /\ phase = "active" /\ HasFreeSlot
    /\ phase' = "deactivated"
    /\ Start(resetColorsCall("deactivate"))
    /\ UNCHANGED <<store, globalColors, settings, workspace, baseline, calls,
                 world, gitInfo, request, derived, callVars>>

\* (mutant) the main repository is told by worktreeIndex === 0
gitResolved_SkipsIndexZero(t) ==
    /\ tasks[t].pc = "git"
    /\ tasks' = [tasks EXCEPT ![t] =
          IF ~workspace.found
          THEN Returned(tasks[t].trigger, "Not a git repository")
          ELSE IF workspace.worktreeIndex = 0
          THEN Returned(tasks[t].trigger, "Skipping main repository")
          ELSE LET config == settings.color
                   color == generateColor(workspace.repoIdentifier,
                                          workspace.worktreeIndex, config)
               IN  [@ EXCEPT !.pc = "write",
                             !.pending = Object(mergedColors(store, color, config))]]
    /\ UNCHANGED <<store, globalColors, settings, workspace, phase, baseline, calls,
                   world, gitInfo, request, derived, callVars>>

\* detectWorktreeGitInfo resolves: the rest of applyWorktreeColors, and
\* applyColors up to `await workbenchConfig.update(...)`
gitResolved(t) ==
    /\ tasks[t].pc = "git"
    /\ tasks' = [tasks EXCEPT ![t] =
          IF ~workspace.found
          THEN Returned(tasks[t].trigger, "Not a git repository")
          ELSE IF ~workspace.isWorktree
          THEN Returned(tasks[t].trigger, "Skipping main repository")
          ELSE LET config == settings.color
                   color == generateColor(workspace.repoIdentifier,
                                          workspace.worktreeIndex, config)
               IN  [@ EXCEPT !.pc = "write",
                             !.pending = Object(mergedColors(store, color, config))]]
    /\ UNCHANGED <<store, globalColors, settings, workspace, phase, baseline, calls,
                 world, gitInfo, request, derived, callVars>>

\* the host performs a pending update(): the whole object is replaced
updateLands(t) ==
    /\ tasks[t].pc = "write"
    /\ store' = tasks[t].pending
    /\ tasks' = [tasks EXCEPT ![t] =
          [@ EXCEPT !.pc = "done", !.pending = Undefined, !.respect = FALSE,
                    !.outcome = IF tasks[t].kind = "apply"
                                THEN "Applied color" ELSE ""]]
    /\ baseline' = IF tasks[t].kind = "apply" /\ ~HoldsSystemColor(store)
                   THEN ManagedSlice(store) ELSE baseline
    /\ UNCHANGED <<globalColors, settings, workspace, phase, calls,
                 world, gitInfo, request, derived, callVars>>

\* the user edits a color of the workspace settings by hand
userEditsColor(k, v) ==
    /\ IF k \in DOMAIN existingColors(store)
       THEN existingColors(store)[k] # v ELSE TRUE
    /\ store' = Object(Spread(existingColors(store), OneKey(k, v)))
    /\ UNCHANGED <<globalColors, settings, workspace, phase, tasks, baseline, calls,
                 world, gitInfo, request, derived, callVars>>

Next ==
    \/ activate
    \/ applyCommand
    \/ resetCommand
    \/ \E updated \in SettingsEdits : configWatcher(updated)
    \/ deactivate
    \/ \E t \in Slots : gitResolved(t)
    \/ \E t \in Slots : updateLands(t)
    \/ userEditsColor("titleBar.activeBackground", Literal(16711680))

Spec == Init /\ [][Next]_vars

----------------------------------------------------------------------------
(* SpecGit: getGitInfo run on the paths of one repository *)

InitGit ==
    /\ world \in Worlds
    /\ gitInfo = Unresolved
    /\ request = NoRequest
    /\ derived = << >>
    /\ NothingCalled
    /\ store = Undefined
    /\ globalColors = Undefined
    /\ settings = DefaultSettings
    /\ workspace = NoWorkspace
    /\ phase = "inactive"
    /\ tasks = [i \in Slots |-> NoTask]
    /\ baseline = EmptyObj
    /\ calls = << >>

\* await getGitInfo(workspacePath)
resolve(workspacePath) ==
    /\ workspacePath \notin DOMAIN gitInfo
    /\ Cardinality(DOMAIN gitInfo) < MaxResolved
    /\ gitInfo' = [path \in DOMAIN gitInfo \cup {workspacePath} |->
                      IF path = workspacePath THEN getGitInfo(world, workspacePath)
                      ELSE gitInfo[path]]
    /\ UNCHANGED <<store, globalColors, settings, workspace, phase, tasks,
                   baseline, calls, world, request, derived, callVars>>

NextGit == \E workspacePath \in ProbePaths : resolve(workspacePath)

SpecGit == InitGit /\ [][NextGit]_vars

----------------------------------------------------------------------------
(* SpecColor: generateColor called for several worktrees of one repository *)

InitColor ==
    /\ request \in [repoIdentifier : RepoIdentifiers, config : DocumentedConfigs]
    /\ derived = << >>
    /\ NothingCalled
    /\ world = NoWorld
    /\ gitInfo = Unresolved
    /\ store = Undefined
    /\ globalColors = Undefined
    /\ settings = DefaultSettings
    /\ workspace = NoWorkspace
    /\ phase = "inactive"
    /\ tasks = [i \in Slots |-> NoTask]
    /\ baseline = EmptyObj
    /\ calls = << >>

\* generateColor(gitInfo.repoIdentifier, gitInfo.worktreeIndex, config)
deriveBaseColor(worktreeIndex) ==
    /\ Len(derived) < MaxDerived
    /\ derived' = Append(derived,
                         [worktreeIndex |-> worktreeIndex,
                          color |-> generateColor(request.repoIdentifier,
                                                  worktreeIndex, request.config)])
    /\ UNCHANGED <<store, globalColors, settings, workspace, phase, tasks,
                   baseline, calls, world, gitInfo, request, callVars>>

NextColor == \E worktreeIndex \in 0..MaxIndex : deriveBaseColor(worktreeIndex)

SpecColor == InitColor /\ [][NextColor]_vars

----------------------------------------------------------------------------
(* SpecUrl: normalizeGitUrl run on a remote URL, then on what it returned *)

InitUrl ==
    /\ originUrl \in RemoteUrlStrings
    /\ normalized = << >>
    /\ text = << >>
    /\ hues = << >>
    /\ customizations = << >>
    /\ window = NoOpened
    /\ detected = << >>
    /\ world = NoWorld
    /\ request = NoRequest
    /\ NothingStarted

\* normalizeGitUrl(remoteUrl), then normalizeGitUrl of the last result
normalize ==
    /\ Len(normalized) < MaxNormalized
    /\ normalized' = Append(normalized,
                            normalizeGitUrl(IF normalized = << >> THEN originUrl
                                            ELSE normalized[Len(normalized)]))
    /\ UNCHANGED <<store, globalColors, settings, workspace, phase, tasks,
                   baseline, calls, world, gitInfo, request, derived,
                   originUrl, text, hues, customizations, window, detected>>

NextUrl == normalize

SpecUrl == InitUrl /\ [][NextUrl]_vars

----------------------------------------------------------------------------
(* SpecHue: stringToHue run on one string, more than once *)

InitHue ==
    /\ text \in HueStrings
    /\ hues = << >>
    /\ originUrl = << >>
    /\ normalized = << >>
    /\ customizations = << >>
    /\ window = NoOpened
    /\ detected = << >>
    /\ world = NoWorld
    /\ request = NoRequest
    /\ NothingStarted

\* stringToHue(text)
hashText ==
    /\ Len(hues) < MaxHashes
    /\ hues' = Append(hues, stringToHue(text))
    /\ UNCHANGED <<store, globalColors, settings, workspace, phase, tasks,
                   baseline, calls, world, gitInfo, request, derived,
                   originUrl, normalized, text, customizations, window, detected>>

NextHue == hashText

SpecHue == InitHue /\ [][NextHue]_vars

----------------------------------------------------------------------------
(* SpecMap: the customizations built for the worktrees of one repository   *)
(* under one choice of the affect* settings                                *)

InitMap ==
    /\ request \in [repoIdentifier : RepoIdentifiers, config : ToggleConfigs]
    /\ customizations = << >>
    /\ originUrl = << >>
    /\ normalized = << >>
    /\ text = << >>
    /\ hues = << >>
    /\ window = NoOpened
    /\ detected = << >>
    /\ world = NoWorld
    /\ NothingStarted

\* buildColorCustomizations(color, config), color the one generateColor
\* gives the worktree
buildCustomizations(worktreeIndex) ==
    /\ Len(customizations) < MaxBuilt
    /\ LET color == generateColor(request.repoIdentifier, worktreeIndex,
                                  request.config)
       IN  customizations' =
               Append(customizations,
                      [baseColor |-> color,
                       colors |-> buildColorCustomizations(color, request.config)])
    /\ UNCHANGED <<store, globalColors, settings, workspace, phase, tasks,
                   baseline, calls, world, gitInfo, request, derived,
                   originUrl, normalized, text, hues, window, detected>>

NextMap == \E worktreeIndex \in 0..MaxIndex : buildCustomizations(worktreeIndex)

SpecMap == InitMap /\ [][NextMap]_vars

----------------------------------------------------------------------------
(* SpecDetect: detectWorktreeGitInfo run in a window *)

InitDetect ==
    /\ world \in WindowWorlds
    /\ window \in [workspaceFile : WorkspaceFiles, firstFolder : FirstFolders,
                    detectionMode : DetectionModes]
    /\ detected = << >>
    /\ originUrl = << >>
    /\ normalized = << >>
    /\ text = << >>
    /\ hues = << >>
    /\ customizations = << >>
    /\ request = NoRequest
    /\ NothingStarted

\* await detectWorktreeGitInfo(getWorkspaceConfig())
detect ==
    /\ Len(detected) < MaxDetected
    /\ detected' = Append(detected,
                          detectWorktreeGitInfo(
                              [path \in ProbePaths |-> getGitInfo(world, path)],
                              world, getWorkspaceConfig(window.detectionMode),
                              window.workspaceFile, window.firstFolder))
    /\ UNCHANGED <<store, globalColors, settings, workspace, phase, tasks,
                   baseline, calls, world, gitInfo, request, derived,
                   originUrl, normalized, text, hues, customizations, window>>

NextDetect == detect

SpecDetect == InitDetect /\ [][NextDetect]_vars

----------------------------------------------------------------------------
(* Reading the history of overlay calls *)

NCalls == Len(calls)

\* the store value the i-th call left
After(i) == IF i < NCalls THEN calls[i + 1].before ELSE store

\* the overlay is Applied after the first n calls: an apply, and no restore since
AppliedAfter(n) ==
    \E i \in 1..n : /\ calls[i].op = "apply"
                    /\ \A j \in (i + 1)..n : calls[j].op # "restore"

\* calls f..n are applies only, the overlay was Idle before call f, and
\* call n+1 is a restore: one Idle -> Applied -> Idle cycle without outside edits
Cycle(f, n) ==
    /\ 1 <= f /\ f <= n /\ n + 1 <= NCalls
    /\ ~AppliedAfter(f - 1)
    /\ \A j \in f..n : calls[j].op = "apply"
    /\ calls[n + 1].op = "restore"

----------------------------------------------------------------------------
(* C1: from every initial object (absent, unrelated keys only, or with      *)
(* managed keys), apply() followed immediately by restore() leaves the      *)
(* object deep-equal to its value before the apply.                         *)
C1_ApplyRestoreRoundTrip ==
    \A i \in 1..NCalls : Cycle(i, i) => After(i + 1) = calls[i].before

(* C2: apply(); apply(); restore() leaves the object in the state a single  *)
(* apply(); restore() from the same initial object leaves.                  *)
C2_SecondApplyIsIdempotent ==
    \A i \in 1..NCalls :
        Cycle(i, i + 1) =>
            After(i + 2) =
                newValue(Object(mergedColors(calls[i].before, calls[i].color,
                                             calls[i].config)))

C2_Witness ==
    /\ NCalls = 3 /\ Cycle(1, 2)
    /\ calls[1].color # calls[2].color
    /\ calls[1].config.affectTitleBar /\ ~calls[2].config.affectTitleBar
    /\ "editor.background" \in DOMAIN existingColors(store)

(* C4: apply and restore never add, change or delete a key outside the      *)
(* managed key set, and every key apply writes is a managed key.            *)
C4_UnmanagedKeysUntouched ==
    \A i \in 1..NCalls :
        /\ UnmanagedSlice(After(i)) = UnmanagedSlice(calls[i].before)
        /\ calls[i].op = "apply" =>
              /\ DOMAIN buildColorCustomizations(calls[i].color, calls[i].config)
                    \subseteq ManagedKeys
              /\ \A k \in DOMAIN existingColors(After(i)) :
                    \/ k \in ManagedKeys
                    \/ /\ k \in DOMAIN existingColors(calls[i].before)
                       /\ existingColors(After(i))[k]
                             = existingColors(calls[i].before)[k]

C4_Witness ==
    /\ NCalls = 3
    /\ calls[1].op = "apply" /\ calls[1].config.affectTitleBar
    /\ calls[2].op = "restore" /\ calls[3].op = "apply"
    /\ "editor.background" \in DOMAIN existingColors(calls[1].before)
    /\ "editor.background" \in DOMAIN existingColors(store)

(* C5: after restore() from Applied, every managed key that held a value    *)
(* before the first apply holds that value again, and every managed key     *)
(* that was absent then is absent.                                          *)
C5_RestoreReinstatesOriginals ==
    \A f \in 1..NCalls : \A n \in f..NCalls :
        Cycle(f, n) => ManagedSlice(After(n + 1)) = ManagedSlice(calls[f].before)

(* C6: restore() while the overlay is Idle leaves the object unchanged,     *)
(* managed keys the user set included.                                      *)
C6_IdleRestoreIsNoOp ==
    \A i \in 1..NCalls :
        (calls[i].op = "restore" /\ ~AppliedAfter(i - 1))
            => After(i) = calls[i].before

----------------------------------------------------------------------------
(* Reading the started calls *)

Quiescent == \A t \in Slots : tasks[t].pc \in {"unused", "done"}

\* call t is the reset the extension starts when it is switched off
SwitchOff(t) ==
    tasks[t].kind = "reset" /\ tasks[t].trigger \in {"disable", "deactivate"}

\* the extension is off, and no apply was started after it was switched off
OffSince(t) ==
    /\ SwitchOff(t)
    /\ phase = "deactivated" \/ ~settings.enabled
    /\ \A u \in Slots : u > t => tasks[u].kind # "apply"

\* in this step the update() of call t is performed
Lands(t) == tasks[t].pc = "write" /\ tasks'[t].pc = "done"

\* the managed values a resetColors() run now would leave in the store:
\* all the code keeps of the values from before its first write
originalValues == ManagedSlice(newValue(store))

(* C3: under any interleaving of overlapping apply triggers, the baseline   *)
(* the system keeps for the managed keys equals the values (or absence)     *)
(* they had in the store before the first apply wrote anything.             *)
C3_BaselineIsPreApplyValues ==
    HoldsSystemColor(store) => originalValues = baseline

C9_UserColorsSurviveApply ==
    [][ \A t \in Slots :
          (Lands(t) /\ tasks[t].kind = "apply" /\ tasks[t].respect) =>
              \A k \in DOMAIN ManagedSlice(store) :
                  ~SystemValue(ManagedSlice(store)[k]) =>
                      /\ k \in DOMAIN ManagedSlice(store')
                      /\ ManagedSlice(store')[k] = ManagedSlice(store)[k] ]_vars

(* C10: once the extension is disabled through settings or deactivated and  *)
(* every call in flight has completed, no managed key holds a value this    *)
(* system wrote, also when an apply trigger was suspended at that moment.   *)
C10_NoColorsLeftWhenOff ==
    (Quiescent /\ \E t \in Slots : OffSince(t)) => ~HoldsSystemColor(store)

----------------------------------------------------------------------------
(* Which workspaces an apply trigger colors (Spec) *)

\* the open folder is a secondary worktree: its .git is a file
SecondaryWorktree == workspace.gitEntry = "file"

\* the task handed colors to update(), or its update has landed
Writes(t) ==
    /\ tasks[t].kind = "apply"
    /\ tasks[t].pc = "write" \/ tasks[t].outcome = "Applied color"

\* the task got past the existing-colors check and past git resolution
PastGit(t) ==
    /\ tasks[t].kind = "apply"
    /\ tasks[t].pc \in {"write", "done"}
    /\ tasks[t].outcome \notin {"No workspace folder open",
                                "Existing color customizations found"}

----------------------------------------------------------------------------
(* What getGitInfo returns (SpecGit) *)

\* what the .git of a path is on disk: "none" | "dir" | "file"
GitEntry(path) == GitEntryIn(world, path)

\* the paths getGitInfo was run on, and those it returned a GitInfo for
ResolvedPaths == DOMAIN gitInfo
Found == {path \in ResolvedPaths : gitInfo[path].present}

\* git answers every command, its list of worktrees is complete, and the
\* .git files of the secondary worktrees are the ones git wrote
Healthy ==
    /\ world.fails = {}
    /\ world.listed = world.worktrees
    /\ world.gitFiles \in WorktreeGitFiles

(* C12: in a repository whose git commands all answer, getGitInfo returns  *)
(* worktreeIndex 0 for the main working tree (.git is a directory) and a   *)
(* worktreeIndex greater than 0 for every secondary worktree.              *)
C12_IndexZeroIsMainTree ==
    Healthy =>
        \A path \in Found :
            /\ GitEntry(path) = "dir" => gitInfo[path].worktreeIndex = 0
            /\ GitEntry(path) = "file" => gitInfo[path].worktreeIndex > 0

\* the paths `git worktree list` prints
ListedPaths == {world.listed[i] : i \in DOMAIN world.listed}

\* zero-based rank of a path among the listed paths, in code-unit order
Rank(path) == Cardinality({other \in ListedPaths : StringLess(other, path)})

\* the worktree list and the top-level path are both available
Ranked(path) ==
    /\ WorktreeListPorcelain \notin world.fails
    /\ RevParseTopLevel \notin world.fails
    /\ path \in ListedPaths

(* C13: the worktreeIndex getGitInfo returns for a working tree is the     *)
(* zero-based rank of its top-level path among the listed worktree paths   *)
(* in lexicographic order; it is 0 when the list is empty or unavailable,  *)
(* when the top-level path is unavailable, or when it is not in the list.  *)
(* Distinct worktrees of the list get distinct indices.                    *)
C13_IndexIsLexicographicRank ==
    /\ \A path \in Found :
           gitInfo[path].worktreeIndex = IF Ranked(path) THEN Rank(path) ELSE 0
    /\ \A path \in Found, other \in Found :
           (path # other /\ Ranked(path) /\ Ranked(other))
               => gitInfo[path].worktreeIndex # gitInfo[other].worktreeIndex

\* the tree git lists first ranks last, and a second tree was resolved too
C13_Witness ==
    /\ Healthy /\ Cardinality(Found) = 2
    /\ \E path \in Found : /\ world.listed[1] = path
                           /\ gitInfo[path].worktreeIndex = 2

(* C14: in a repository whose git commands all answer, every working tree  *)
(* resolves to the same repoIdentifier, with a remote URL configured and   *)
(* without one.                                                            *)
C14_WorktreesShareIdentifier ==
    Healthy =>
        \A path \in Found, other \in Found :
            gitInfo[path].repoIdentifier = gitInfo[other].repoIdentifier

----------------------------------------------------------------------------
(* The colors of the worktrees of one repository (SpecColor) *)

Derivations == DOMAIN derived

\* baseLightness + k * worktreeLightnessStep, before the cap
Uncapped(k) ==
    request.config.baseLightness + k * request.config.worktreeLightnessStep

C16_LightnessIsCappedRamp ==
    \A i \in Derivations :
        LET k == derived[i].worktreeIndex
            color == derived[i].color
        IN  /\ color.l = IF Uncapped(k) < 65 THEN Uncapped(k) ELSE 65
            /\ k = 0 => color.l = request.config.baseLightness
            /\ color.l <= 65
            /\ color.h = stringToHue(request.repoIdentifier)
            /\ (request.config.baseLightness = 25
                  /\ request.config.worktreeLightnessStep = 5)
               => /\ k = 0 => color.l = 25
                  /\ k = 2 => color.l = 35
            /\ \A j \in Derivations :
                   /\ derived[j].color.h = color.h
                   /\ k <= derived[j].worktreeIndex => color.l <= derived[j].color.l

\* indices 0 and 2 derived with baseLightness 25 and step 5
C16_Witness ==
    /\ request.config.baseLightness = 25
    /\ request.config.worktreeLightnessStep = 5
    /\ Len(derived) = 2
    /\ derived[1].worktreeIndex = 0 /\ derived[2].worktreeIndex = 2

----------------------------------------------------------------------------
(* Absent results and failures of getGitInfo (SpecGit) *)

\* the path is a working tree of the repository or lies inside one
InsideWorkingTree(path) == containingWorktree(world, path) # null

\* .git files that hold no gitdir line with a target
UnparseableGitFiles == {"empty", "blank", "ref"}

(* C17: getGitInfo(path) returns null when path is not inside a working    *)
(* tree, and returns a GitInfo for every path inside a working tree, a     *)
(* subdirectory of it included.                                            *)
C17_ResolvesInsideWorkingTree ==
    world.gitFiles \notin UnparseableGitFiles =>
        \A path \in ResolvedPaths :
            gitInfo[path].present <=> InsideWorkingTree(path)

(* C18: when the .git of a path is a file without a parseable gitdir line, *)
(* getGitInfo returns null and throws nothing; it spawns no git subprocess *)
(* and nothing of a GitInfo is returned.                                   *)
C18_MalformedGitFileIsAbsent ==
    \A path \in ResolvedPaths :
        (GitEntry(path) = "file" /\ world.gitFiles \in UnparseableGitFiles)
            => /\ ~gitInfo[path].present
               /\ ~gitInfo[path].threw
               /\ gitInfo[path].spawned = << >>
               /\ gitInfo[path] = NoGitInfo

\* a worktree whose .git file holds "ref: refs/heads/main" was resolved
C18_Witness ==
    \E path \in ResolvedPaths :
        GitEntry(path) = "file" /\ world.gitFiles = "ref"

\* the .git of the path is a directory or a file with a gitdir target
ValidGitEntry(path) ==
    \/ GitEntry(path) = "dir"
    \/ GitEntry(path) = "file" /\ world.gitFiles \notin UnparseableGitFiles

(* C19: a failing git subprocess degrades its own step only: for a path    *)
(* with a valid .git entry getGitInfo returns a GitInfo and throws         *)
(* nothing, whichever commands fail; a failed remote query gives the       *)
(* fallback identifier (the base name of the working tree) and a failed    *)
(* worktree listing gives index 0.                                         *)
C19_GitFailuresDegrade ==
    \A path \in ResolvedPaths :
        ValidGitEntry(path) =>
            /\ gitInfo[path].present
            /\ ~gitInfo[path].threw
            /\ ConfigRemote \in world.fails
                   => gitInfo[path].repoIdentifier = basename(path)
            /\ WorktreeListPorcelain \in world.fails
                   => gitInfo[path].worktreeIndex = 0

\* a working tree was resolved while every git command failed, and another
\* while only the listing failed in a repository with a remote
C19_Witness ==
    \E path \in Found :
        \/ world.fails = GitCommands
        \/ world.fails = {WorktreeListPorcelain} /\ world.remote # << >>

(* C20: when the .git of a path is a file whose gitdir target is           *)
(* <mainRepo>/.git/worktrees/<name>, getGitInfo returns isWorktree = true  *)
(* and mainWorktreePath = <mainRepo>; when it is a directory, it returns   *)
(* isWorktree = false and no mainWorktreePath.                             *)
C20_WorktreeAndMainRepoPath ==
    \A path \in ResolvedPaths :
        /\ (GitEntry(path) = "file" /\ world.gitFiles \in WorktreeGitFiles)
               => /\ gitInfo[path].present
                  /\ gitInfo[path].isWorktree
                  /\ gitInfo[path].mainWorktreePath = world.worktrees[1]
        /\ GitEntry(path) = "dir"
               => /\ gitInfo[path].present
                  /\ ~gitInfo[path].isWorktree
                  /\ gitInfo[path].mainWorktreePath = null

\* a secondary worktree with a relative gitdir and the main tree, both resolved
C20_Witness ==
    /\ world.gitFiles = "relative"
    /\ \E path \in Found : gitInfo[path].mainWorktreePath = world.worktrees[1]
    /\ \E path \in Found : ~gitInfo[path].isWorktree

----------------------------------------------------------------------------
(* What normalizeGitUrl returns (SpecUrl) *)

\* "host/path" of a repository
Identifier(repo) == repo.host \o <<Slash>> \o repo.path

\* the results of the calls made so far: normalizeGitUrl(originUrl) first
Normalizations == DOMAIN normalized

(* C21: every URL of a repository (user@host:path, http://, https:// and   *)
(* git://; in any letter case, with or without surrounding whitespace, a   *)
(* trailing .git and trailing slashes) normalizes to the identifier        *)
(* host/path in lower case.                                                *)
C21_RemoteFormsNormalizeAlike ==
    \A repo \in HostedRepos :
        (originUrl \in Renderings(repo) /\ 1 \in Normalizations)
            => normalized[1] = Identifier(repo)

\* the result carries nothing normalizeGitUrl strips
Canonical(s) ==
    /\ trim(s) = s
    /\ toLowerCase(s) = s
    /\ ~startsWith(s, HttpScheme) /\ ~startsWith(s, HttpsScheme)
    /\ ~startsWith(s, GitScheme)
    /\ ~endsWith(s, DotGit)
    /\ ~endsWith(s, <<Slash>>)

(* C22: normalizeGitUrl(normalizeGitUrl(u)) = normalizeGitUrl(u) for every *)
(* input u, and the result carries no scheme, no trailing .git, no         *)
(* trailing slash, no surrounding whitespace and no upper-case letter.     *)
C22_NormalizeIsIdempotent ==
    /\ 1 \in Normalizations => Canonical(normalized[1])
    /\ 2 \in Normalizations => normalized[2] = normalized[1]

----------------------------------------------------------------------------
(* What stringToHue returns (SpecHue) *)

\* the 32-bit hash of the string, as its halves <<hi, lo>>
Hash == HashFrom(text, 1, <<0, 0>>)

(* C23: for every string, the empty one and those whose rolling hash       *)
(* wraps the 32-bit signed range (the value -2^31 included), stringToHue   *)
(* returns an integer in [0,360), and the same one at every call.          *)
C23_HueInRangeAndDeterministic ==
    \A i \in DOMAIN hues :
        /\ hues[i] \in 0..359
        /\ hues[i] = hues[1]
        /\ text = << >> => hues[i] = 0

\* stringToHue was called twice on a string whose hash is -2^31
C23_Witness ==
    /\ Len(hues) = 2
    /\ Hash = <<32768, 0>>

----------------------------------------------------------------------------
(* The keys buildColorCustomizations sets (SpecMap) *)

TitleBarKeys ==
    {"titleBar.activeBackground", "titleBar.activeForeground",
     "titleBar.inactiveBackground", "titleBar.inactiveForeground"}
ActivityBarKeys ==
    {"activityBar.background", "activityBar.foreground",
     "activityBar.inactiveForeground"}
StatusBarKeys == {"statusBar.background", "statusBar.foreground"}

\* the keys of the targets a configuration enables
EnabledKeys(config) ==
    (IF config.affectTitleBar THEN TitleBarKeys ELSE {})
    \cup (IF config.affectActivityBar THEN ActivityBarKeys ELSE {})
    \cup (IF config.affectStatusBar THEN StatusBarKeys ELSE {})

(* C24: for every choice of the three affect* settings the keys of         *)
(* buildColorCustomizations(baseColor, config) are exactly the title bar,  *)
(* activity bar and status bar keys whose setting is on: a target that is  *)
(* off contributes no key, all off gives the empty object and all on gives *)
(* exactly MANAGED_COLOR_KEYS.                                             *)
C24_KeysAreTheEnabledTargets ==
    \A i \in DOMAIN customizations :
        LET keys == DOMAIN customizations[i].colors
            config == request.config
        IN  /\ keys = EnabledKeys(config)
            /\ ~config.affectTitleBar => keys \cap TitleBarKeys = {}
            /\ ~config.affectActivityBar => keys \cap ActivityBarKeys = {}
            /\ ~config.affectStatusBar => keys \cap StatusBarKeys = {}
            /\ (~config.affectTitleBar /\ ~config.affectActivityBar
                  /\ ~config.affectStatusBar) => keys = {}
            /\ (config.affectTitleBar /\ config.affectActivityBar
                  /\ config.affectStatusBar) => keys = ManagedKeys

\* two maps were built with the status bar off and the other targets on
C24_Witness ==
    /\ Len(customizations) = 2
    /\ request.config.affectTitleBar /\ request.config.affectActivityBar
    /\ ~request.config.affectStatusBar
    /\ customizations[1].colors # customizations[2].colors

----------------------------------------------------------------------------
(* Which path detectWorktreeGitInfo resolves (SpecDetect) *)

HasWorkspaceFile == window.workspaceFile # null

\* what a call consulted
LookedAt(d) == {d.lookups[j].what : j \in DOMAIN d.lookups}

\* the call resolved the first folder only
FirstFolderOnly(d) ==
    /\ Len(d.lookups) = 1
    /\ d.lookups[1].what = "firstFolder"
    /\ d.info.present = d.lookups[1].found

(* C25: with detectionMode auto (or unset) the location of the workspace   *)
(* file is resolved first, and the first folder after it exactly when that *)
(* gave no GitInfo (or there is no workspace file); with workspaceFileOnly *)
(* the first folder is never resolved; with the setting value              *)
(* firstFolderOnly (and with firstWorkspaceFolder) the first folder is     *)
(* resolved and the workspace file is never consulted.                     *)
C25_ModeSelectsThePath ==
    \A i \in DOMAIN detected :
        LET d == detected[i]
            mode == window.detectionMode
        IN  /\ mode \in {"undefined", "auto"} =>
                  /\ HasWorkspaceFile => d.lookups[1].what = "workspaceFile"
                  /\ "firstFolder" \in LookedAt(d)
                        <=> (~HasWorkspaceFile \/ ~d.lookups[1].found)
                  /\ d.info.present = d.lookups[Len(d.lookups)].found
            /\ mode = "workspaceFileOnly" =>
                  /\ "firstFolder" \notin LookedAt(d)
                  /\ d.info.present
                        <=> (HasWorkspaceFile /\ d.lookups[1].found)
            /\ mode \in {"firstFolderOnly", "firstWorkspaceFolder"} =>
                  FirstFolderOnly(d)

----------------------------------------------------------------------------
(* Rejected writes and repeated applies (SpecOverlay) *)

\* calls f..n are applies made from Idle, calls n+1..m-1 are restores whose
\* write the host rejected (one at least), and call m is a restore whose
\* write succeeded
HealedCycle(f, n, m) ==
    /\ 1 <= f /\ f <= n /\ n + 1 < m /\ m <= NCalls
    /\ ~AppliedAfter(f - 1)
    /\ \A j \in f..n : calls[j].op = "apply"
    /\ \A j \in (n + 1)..(m - 1) : calls[j].op = "rejected"
    /\ calls[m].op = "restore"

(* C26: a restore whose write the host rejects fails towards its caller    *)
(* and leaves the managed keys as they were; the next restore whose write  *)
(* succeeds leaves the object equal to its value before the overlay: no    *)
(* managed key holds a value this system wrote and every original value is *)
(* back.                                                                   *)
C26_RejectedRestoreHealsOnTheNext ==
    /\ \A i \in 1..NCalls :
           calls[i].op = "rejected" => After(i) = calls[i].before
    /\ \A f \in 1..NCalls : \A n \in f..NCalls : \A m \in n..NCalls :
           HealedCycle(f, n, m) =>
               /\ ~HoldsSystemColor(After(m))
               /\ After(m) = calls[f].before

\* the managed keys of a store value that hold a value this system wrote
SystemKeys(st) ==
    {k \in DOMAIN ManagedSlice(st) : SystemValue(ManagedSlice(st)[k])}

(* C27: after an apply that follows an earlier apply with no restore in    *)
(* between, the managed keys that hold a value this system wrote are       *)
(* exactly the keys of buildColorCustomizations for the settings of the    *)
(* later apply: no key of a target that is now off keeps a color.          *)
C27_DisabledTargetKeepsNoColor ==
    \A i \in 2..NCalls :
        (calls[i].op = "apply" /\ AppliedAfter(i - 1)) =>
            SystemKeys(After(i))
                = DOMAIN buildColorCustomizations(calls[i].color, calls[i].config)

----------------------------------------------------------------------------
(* Overlapping apply triggers (Spec) *)

\* the update() of call t has landed
Applied(t) == tasks[t].kind = "apply" /\ tasks[t].outcome = "Applied color"

\* the customizations for the settings as they are now
CurrentCustomizations ==
    buildColorCustomizations(generateColor(workspace.repoIdentifier,
                                           workspace.worktreeIndex,
                                           settings.color),
                             settings.color)

\* the managed keys that hold a value this system wrote, with the values
SystemSlice(st) == [k \in SystemKeys(st) |-> ManagedSlice(st)[k]]

\* call u was started while the older call t was suspended, and in this
\* step the later of their two writes lands: the write of t after that of
\* u, or the write of u, which passed the existing-colors check before t
\* wrote, after that of t
LastOfOverlappingLands(t, u) ==
    /\ t < u
    /\ tasks[t].kind = "apply" /\ tasks[u].kind = "apply"
    /\ \/ Lands(t) /\ Applied(u)
       \/ Lands(u) /\ Applied(t) /\ tasks[u].respect

(* C28: when a newer apply trigger fires while an older one is suspended,  *)
(* then once both writes have landed the managed keys this system wrote    *)
(* hold the customizations for the settings of the newer trigger; the      *)
(* older trigger's write does not land last and leave stale colors.        *)
C28_NewerTriggerWins ==
    [][ \A t \in Slots, u \in Slots :
            LastOfOverlappingLands(t, u)
                => SystemSlice(store') = CurrentCustomizations ]_vars

====
